---- MODULE Spec2Model ----
(***************************************************************************)
(* Model of the scrabble-solver board engine: board/board.py (BoardState,  *)
(* Word, make_word, the pattern generator and the cross-word scan) and the *)
(* anchor scan of main.py (get_best_words).                                *)
(*                                                                         *)
(* A position is a pair <<x, y>> (column, row).  The board is the          *)
(* defaultdict self.board: a mapping from positions to an entry, where an  *)
(* entry is a letter (a BoardTile stored under its own position), the      *)
(* value None (a key that defaultdict's __missing__ created), or no key.   *)
(***************************************************************************)
EXTENDS Integers, Sequences, FiniteSets

\* ------------------------------------------------------------- bounds
\* BoardState(h, w): the dimensions given to the constructor.
W == 4
H == 1
\* Largest max_tiles handed to make_patterns (the rack size in main.py).
MaxBudget == 3

\* ------------------------------------------------------------- values
Letters == {"a", "b"}
Absent == "absent"      \* no key in self.board
NoneEntry == "None"     \* key present, value None
Placeholder == "_"

DOWN == <<0, 1>>
ACROSS == <<1, 0>>
directions == {DOWN, ACROSS}

orthogonal(d) == IF d = DOWN THEN ACROSS ELSE DOWN
opposite(d) == IF d = DOWN THEN <<0, -1>> ELSE <<-1, 0>>

is_direction(d) == d \in directions


BoardTile(pos, letter) == [pos |-> pos, letter |-> letter]
\* The value None where a tile object is expected.
NoneTile == [pos |-> <<-9, -9>>, letter |-> NoneEntry]

\* BoardState.__contains__: the on-board test, upper bounds inclusive.
Contains(pos) ==
    /\ pos[1] >= 0 /\ pos[1] <= W
    /\ pos[2] >= 0 /\ pos[2] <= H

OnBoard == (0 .. W) \X (0 .. H)

\* The positions that can become keys of self.board in the model: the cells
\* of the board (manually_put_tile refuses the others) and the one off-board
\* position get_tile is called with.
Cells == OnBoard \cup {<<-1, 0>>}

\* pos in self.board: the key test of the dictionary (a None value counts).
InBoard(b, pos) == pos \in DOMAIN b /\ b[pos] # Absent

\* self.board[pos] for a key that is present.
BoardAt(b, pos) == IF b[pos] = NoneEntry THEN NoneTile ELSE BoardTile(pos, b[pos])

Step(pos, d) == <<pos[1] + d[1], pos[2] + d[2]>>

LettersOf(tiles) == [i \in 1 .. Len(tiles) |-> tiles[i].letter]

\* ------------------------------------------------------------- make_word
RECURSIVE make_word_from(_, _, _, _)
make_word_from(word, cur, direction, i) ==
    IF i > Len(word) THEN <<>>
    ELSE <<BoardTile(cur, word[i])>> \o make_word_from(word, Step(cur, direction), direction, i + 1)

make_word(word, pos, direction) == make_word_from(word, pos, direction, 1)

\* Word.direction, as __validate_direction infers it from the first pair.
WordDirection(word) == <<word[2].pos[1] - word[1].pos[1], word[2].pos[2] - word[1].pos[2]>>

\* The letters of the words the model builds: every two-letter word.
LetterSeqs == [1 .. 2 -> Letters]

\* Positions the grid operations are called with: the corner cell, the cell
\* right of it, the first cell of the last row, and a cell off the board.
CallPositions == {<<0, 0>>, <<1, 0>>, <<0, H>>, <<-1, 0>>}

\* Words handed to put_word and get_intersecting_words.
Words == {make_word(l, p, d) : l \in LetterSeqs, p \in {<<0, 0>>, <<-1, 0>>}, d \in directions}

\* ------------------------------------------------------------- grid operations
\* BoardState.get_tile: self.board[tile] on a defaultdict, whose __missing__
\* stores the default (None) under a key that was not there.
get_tile_board(b, pos) == IF InBoard(b, pos) THEN b ELSE [b EXCEPT ![pos] = NoneEntry]

get_tile_result(b, pos) == IF InBoard(b, pos) THEN b[pos] ELSE NoneEntry

\* A removal that tolerates a missing key (self.board.pop(pos, None)).
manually_delete_tile_tolerant(b, pos) == "ok"

\* BoardState.manually_delete_tile: del self.board[pos] raises KeyError for a
\* key that is not there (del never calls __missing__).
manually_delete_tile_status(b, pos) == IF InBoard(b, pos) THEN "ok" ELSE "KeyError"

manually_delete_tile_board(b, pos) == IF InBoard(b, pos) THEN [b EXCEPT ![pos] = Absent] ELSE b

\* BoardState.manually_put_tile
manually_put_tile_status(tile) ==
    IF ~Contains(tile.pos) THEN "ValueError: invalid tile position" ELSE "ok"

manually_put_tile_board(b, tile) ==
    IF ~Contains(tile.pos) THEN b ELSE [b EXCEPT ![tile.pos] = tile.letter]

\* BoardState.put_word: the loop over the word's tiles, from tile i on.  A
\* raise leaves the tiles written so far in place.
RECURSIVE put_word_from(_, _, _)
put_word_from(b, word, i) ==
    IF i > Len(word) THEN [board |-> b, status |-> "ok", at |-> 0]
    ELSE LET tile == word[i] IN
         IF InBoard(b, tile.pos)
         THEN IF b[tile.pos] = NoneEntry
              THEN [board |-> b, status |-> "AttributeError", at |-> i]
              ELSE IF tile.letter # b[tile.pos]
              THEN [board |-> b,
                    status |-> "ValueError: tile letter does not match board letter",
                    at |-> i]
              ELSE put_word_from(b, word, i + 1)
         ELSE IF manually_put_tile_status(tile) # "ok"
              THEN [board |-> b, status |-> manually_put_tile_status(tile), at |-> i]
              ELSE put_word_from(manually_put_tile_board(b, tile), word, i + 1)

put_word(b, word) == put_word_from(b, word, 1)

\* ------------------------------------------------------------- pattern generator
\* The state one budget level threads through its recursion: ret (the list
\* scr), the memo set visited, and whether a raise has ended the call.
EmptySearch == [ret |-> <<>>, visited |-> {}, err |-> FALSE]

\* The emission test with the placeholder test dropped.
has_placeholder_always(current) == TRUE

\* any(i.letter == '_' for i in current)
has_placeholder(current) == \E i \in 1 .. Len(current) : current[i].letter = Placeholder

\* The memo test with the memo never consulted.
seen_never(word, visited) == FALSE

\* word in visited, where word is the tuple of the letters of current
seen(word, visited) == word \in visited

\* BoardState.__make_pattern_rec.  A None taken from the board as a tile
\* raises AttributeError at the next read of its letter.
RECURSIVE make_pattern_rec(_, _, _, _, _)
make_pattern_rec(b, direction, remaining, current, st) ==
    IF st.err THEN st
    ELSE IF \E i \in 1 .. Len(current) : current[i] = NoneTile
    THEN [st EXCEPT !.err = TRUE]
    ELSE LET word == LettersOf(current) IN
    IF seen(word, st.visited) THEN st
    ELSE LET st1 == [st EXCEPT !.visited = @ \cup {word}]
             frontier_left == Step(current[1].pos, opposite(direction))
             frontier_right == Step(current[Len(current)].pos, direction)
         IN
         IF remaining = 0 /\ Len(current) > 1
         THEN IF has_placeholder(current)
              THEN [st1 EXCEPT !.ret = Append(@, current)]
              ELSE st1
         ELSE IF InBoard(b, frontier_left)
         THEN make_pattern_rec(b, direction, remaining,
                               <<BoardAt(b, frontier_left)>> \o current, st1)
         ELSE IF InBoard(b, frontier_right)
         THEN make_pattern_rec(b, direction, remaining,
                               Append(current, BoardAt(b, frontier_right)), st1)
         ELSE LET st2 == IF Contains(frontier_left)
                         THEN make_pattern_rec(b, direction, remaining - 1,
                                  <<BoardTile(frontier_left, Placeholder)>> \o current, st1)
                         ELSE st1
              IN IF Contains(frontier_right)
                 THEN make_pattern_rec(b, direction, remaining - 1,
                          Append(current, BoardTile(frontier_right, Placeholder)), st2)
                 ELSE st2

\* The budget levels make_patterns runs: xrange(0, max_tiles).
budget_levels(max_tiles) == [r \in 1 .. max_tiles |-> r - 1]

\* BoardState.make_patterns.  levels keeps the list scr of every budget level;
\* the returned list ret is their concatenation.
make_patterns(b, pos, direction, max_tiles) ==
    IF ~Contains(pos)
    THEN [status |-> "ValueError: invalid tile location", levels |-> <<>>]
    ELSE IF ~InBoard(b, pos)
    THEN [status |-> "ValueError: empty position tile", levels |-> <<>>]
    ELSE LET budgets == budget_levels(max_tiles)
             runs == [k \in 1 .. Len(budgets) |->
                        make_pattern_rec(b, direction, budgets[k],
                                         <<BoardAt(b, pos)>>, EmptySearch)]
         IN IF \E k \in 1 .. Len(budgets) : runs[k].err
            THEN [status |-> "AttributeError", levels |-> <<>>]
            ELSE [status |-> "ok", levels |-> [k \in 1 .. Len(budgets) |-> runs[k].ret]]

\* ------------------------------------------------------------- cross words
\* The while loop of __get_intersecting_word_for_pos for one direction d:
\* the entries met from cur outwards, up to the first cell that is off the
\* board or has no key.
RECURSIVE fan(_, _, _)
fan(b, cur, d) ==
    LET nxt == Step(cur, d) IN
    IF ~Contains(nxt) \/ ~InBoard(b, nxt) THEN <<>>
    ELSE <<BoardAt(b, nxt)>> \o fan(b, nxt, d)

\* sorted(tiles, key=...): insertion of t into a list sorted by coordinate c
\* (1 for x, 2 for y), after the elements with an equal key (a stable sort).
RECURSIVE insert_sorted(_, _, _)
insert_sorted(t, lst, c) ==
    IF lst = <<>> THEN <<t>>
    ELSE IF t.pos[c] < Head(lst).pos[c] THEN <<t>> \o lst
    ELSE <<Head(lst)>> \o insert_sorted(t, Tail(lst), c)

RECURSIVE sorted_tiles(_, _)
sorted_tiles(lst, c) ==
    IF lst = <<>> THEN <<>>
    ELSE insert_sorted(lst[Len(lst)], sorted_tiles(SubSeq(lst, 1, Len(lst) - 1), c), c)

\* BoardState.__get_intersecting_word_for_pos
get_intersecting_word_for_pos(b, tile, direction) ==
    IF ~is_direction(direction)
    THEN [status |-> "ValueError: invalid direction", tiles |-> <<>>]
    ELSE IF ~Contains(tile.pos)
    THEN [status |-> "ValueError: invalid position", tiles |-> <<>>]
    ELSE LET tiles == <<tile>> \o fan(b, tile.pos, direction)
                              \o fan(b, tile.pos, opposite(direction))
         IN IF Len(tiles) = 1 THEN [status |-> "None", tiles |-> <<>>]
            ELSE IF \E i \in 1 .. Len(tiles) : tiles[i] = NoneTile
            THEN [status |-> "AttributeError", tiles |-> <<>>]
            ELSE [status |-> "ok",
                  tiles |-> sorted_tiles(tiles, IF direction = ACROSS THEN 1 ELSE 2)]

\* BoardState.get_intersecting_words, from tile i of word_obj on.
RECURSIVE get_intersecting_words_from(_, _, _, _)
get_intersecting_words_from(b, word_obj, i, words) ==
    IF i > Len(word_obj) THEN [status |-> "ok", words |-> words]
    ELSE LET r == get_intersecting_word_for_pos(b, word_obj[i],
                                                orthogonal(WordDirection(word_obj)))
         IN IF r.status = "None"
            THEN get_intersecting_words_from(b, word_obj, i + 1, words)
            ELSE IF r.status = "ok"
            THEN get_intersecting_words_from(b, word_obj, i + 1,
                                             Append(words, LettersOf(r.tiles)))
            ELSE [status |-> r.status, words |-> <<>>]

get_intersecting_words(b, word_obj) == get_intersecting_words_from(b, word_obj, 1, <<>>)

\* ------------------------------------------------------------- anchor scan
\* for i in xrange(0, b.width): for j in xrange(0, b.height): (i, j)
scan_order == [k \in 1 .. W * H |-> <<(k - 1) \div H, (k - 1) % H>>]

\* get_best_words: the (pos, axis) pairs it hands to words_for_pos, which
\* generates the patterns of the pair with max_tiles = len(gutter).  A raise
\* in the generation ends the scan.
RECURSIVE get_best_words_from(_, _, _, _)
get_best_words_from(b, gutter_len, k, searched) ==
    IF k > Len(scan_order) THEN [status |-> "ok", searched |-> searched]
    ELSE LET pos == scan_order[k] IN
         IF ~InBoard(b, pos) THEN get_best_words_from(b, gutter_len, k + 1, searched)
         ELSE LET across == make_patterns(b, pos, ACROSS, gutter_len)
                  down == make_patterns(b, pos, DOWN, gutter_len)
              IN IF across.status # "ok"
                 THEN [status |-> across.status, searched |-> searched]
                 ELSE IF down.status # "ok"
                 THEN [status |-> down.status,
                       searched |-> Append(searched, <<pos, ACROSS>>)]
                 ELSE get_best_words_from(b, gutter_len, k + 1,
                          searched \o << <<pos, ACROSS>>, <<pos, DOWN>> >>)

get_best_words(b, gutter_len) == get_best_words_from(b, gutter_len, 1, <<>>)

\* ------------------------------------------------------------- state machine
\* board: self.board of the one BoardState.
\* op:    the operation that ran last, its arguments and how it ended.
\* out:   what that operation returned (a sequence; <<>> when it raised).
VARIABLES board, op, out

vars == <<board, op, out>>

Call(name, pos, dir, n, word, status) ==
    [name |-> name, pos |-> pos, dir |-> dir, n |-> n, word |-> word, status |-> status]

\* BoardState.__init__: an empty dictionary.
Init ==
    /\ board = [p \in Cells |-> Absent]
    /\ op = Call("init", <<0, 0>>, ACROSS, 0, <<>>, "ok")
    /\ out = <<>>

GetTile ==
    \E pos \in CallPositions :
        /\ board' = get_tile_board(board, pos)
        /\ op' = Call("get_tile", pos, ACROSS, 0, <<>>, "ok")
        /\ out' = <<get_tile_result(board, pos)>>

ManuallyDeleteTile ==
    \E pos \in CallPositions :
        /\ board' = manually_delete_tile_board(board, pos)
        /\ op' = Call("manually_delete_tile", pos, ACROSS, 0, <<>>,
                      manually_delete_tile_status(board, pos))
        /\ out' = <<>>

ManuallyPutTile ==
    \E pos \in CallPositions, letter \in Letters :
        LET tile == BoardTile(pos, letter) IN
        /\ board' = manually_put_tile_board(board, tile)
        /\ op' = Call("manually_put_tile", pos, ACROSS, 0, <<tile>>,
                      manually_put_tile_status(tile))
        /\ out' = <<>>

PutWord ==
    \E word \in Words :
        LET r == put_word(board, word) IN
        /\ board' = r.board
        /\ op' = Call("put_word", word[1].pos, WordDirection(word), r.at, word, r.status)
        /\ out' = <<>>

GetIntersectingWords ==
    \E word_obj \in Words :
        LET r == get_intersecting_words(board, word_obj) IN
        /\ op' = Call("get_intersecting_words", word_obj[1].pos, WordDirection(word_obj),
                      0, word_obj, r.status)
        /\ out' = r.words
        /\ UNCHANGED board

GetBestWords ==
    \E gutter_len \in 0 .. MaxBudget :
        LET r == get_best_words(board, gutter_len) IN
        /\ op' = Call("get_best_words", <<0, 0>>, ACROSS, gutter_len, <<>>, r.status)
        /\ out' = r.searched
        /\ UNCHANGED board

Next ==
    \/ GetTile
    \/ ManuallyDeleteTile
    \/ ManuallyPutTile
    \/ PutWord
    \/ GetIntersectingWords
    \/ GetBestWords

Spec == Init /\ [][Next]_vars

\* ------------------------------------------------------------- the generator on its own
\* make_patterns reads the board only along the line through the anchor, so
\* its inputs are the boards whose keys lie on one line: row 0 (with the cell
\* left of it) or column 0.  manually_put_tile and get_tile build each of them.
RowCells == {p \in OnBoard : p[2] = 0} \cup {<<-1, 0>>}
ColCells == {p \in OnBoard : p[1] = 0}

EntryKinds(p) == IF Contains(p) THEN Letters \cup {Absent, NoneEntry} ELSE {Absent, NoneEntry}

LineBoard(cells, f) == [p \in Cells |-> IF p \in cells THEN f[p] ELSE Absent]

InitGen ==
    /\ \E cells \in {RowCells, ColCells} :
         \E f \in [cells -> Letters \cup {Absent, NoneEntry}] :
            /\ \A p \in cells : f[p] \in EntryKinds(p)
            /\ board = LineBoard(cells, f)
    /\ op = Call("init", <<0, 0>>, ACROSS, 0, <<>>, "ok")
    /\ out = <<>>

\* make_patterns is a query; a behaviour of SpecGen is one call of it on one
\* board.
MakePatterns ==
    \E pos \in RowCells \cup ColCells, direction \in directions, max_tiles \in 0 .. MaxBudget :
        LET r == make_patterns(board, pos, direction, max_tiles) IN
        /\ op.name = "init"
        /\ op' = Call("make_patterns", pos, direction, max_tiles, <<>>, r.status)
        /\ out' = r.levels
        /\ UNCHANGED board

NextGen == MakePatterns

SpecGen == InitGen /\ [][NextGen]_vars

\* ------------------------------------------------------------- properties
Returned(name) == op.name = name /\ op.status = "ok"

\* A cell that holds a tile: a key of the dictionary whose value is a tile.
Occupied(b, pos) == InBoard(b, pos) /\ b[pos] \in Letters

NoNoneEntries(b) == \A p \in DOMAIN b : b[p] # NoneEntry

\* The placeholder tiles of a pattern p.
Placeholders(p) == {i \in 1 .. Len(p) : p[i].letter = Placeholder}

\* The tiles of p that are the tile the grid b holds at their position.
BoardTiles(b, p) == {i \in 1 .. Len(p) : Occupied(b, p[i].pos) /\ p[i].letter = b[p[i].pos]}

C2_DistinctWithinLevel ==
    Returned("make_patterns") =>
        \A k \in 1 .. Len(out) : \A i, j \in 1 .. Len(out[k]) :
            i # j => LettersOf(out[k][i]) # LettersOf(out[k][j])

\* A level that emitted several patterns, one of them with a placeholder on
\* each side of the anchor (reachable left-then-right and right-then-left).
C2_Witness ==
    /\ Returned("make_patterns")
    /\ \E k \in 1 .. Len(out) :
          /\ Len(out[k]) >= 2
          /\ \E i \in 1 .. Len(out[k]) :
                /\ out[k][i][1].letter = Placeholder
                /\ out[k][i][Len(out[k][i])].letter = Placeholder

\* The on-board cells on the line through pos along direction that hold no key.
Room(b, pos, direction) ==
    Cardinality({p \in OnBoard :
                   /\ IF direction = ACROSS THEN p[2] = pos[2] ELSE p[1] = pos[1]
                   /\ ~InBoard(b, p)})

\* C3: with max_tiles = n >= 1, make_patterns returns a pattern with k
\* placeholders for every k in 1 .. n the line has room for.
C3_EveryCount ==
    (Returned("make_patterns") /\ NoNoneEntries(board)) =>
        \A k \in 1 .. op.n :
            Room(board, op.pos, op.dir) >= k =>
                \E l \in 1 .. Len(out) : \E i \in 1 .. Len(out[l]) :
                    Cardinality(Placeholders(out[l][i])) = k

\* Every pattern the search of one budget level reaches when no sequence is
\* ever cut short by the memo: each way of extending is followed to its end.
RECURSIVE ReachablePatterns(_, _, _, _)
ReachablePatterns(b, direction, remaining, current) ==
    LET frontier_left == Step(current[1].pos, opposite(direction))
        frontier_right == Step(current[Len(current)].pos, direction)
    IN
    IF remaining = 0 /\ Len(current) > 1
    THEN IF has_placeholder(current) THEN {current} ELSE {}
    ELSE IF InBoard(b, frontier_left)
    THEN ReachablePatterns(b, direction, remaining,
                           <<BoardAt(b, frontier_left)>> \o current)
    ELSE IF InBoard(b, frontier_right)
    THEN ReachablePatterns(b, direction, remaining,
                           Append(current, BoardAt(b, frontier_right)))
    ELSE (IF Contains(frontier_left)
          THEN ReachablePatterns(b, direction, remaining - 1,
                                 <<BoardTile(frontier_left, Placeholder)>> \o current)
          ELSE {})
         \cup
         (IF Contains(frontier_right)
          THEN ReachablePatterns(b, direction, remaining - 1,
                                 Append(current, BoardTile(frontier_right, Placeholder)))
          ELSE {})

\* C9: within one budget level the memo loses no pattern: the level emits
\* every pattern its search reaches, also one whose letters equal those of a
\* sequence over other cells.
C9_NoPatternLost ==
    (Returned("make_patterns") /\ NoNoneEntries(board)) =>
        \A k \in 1 .. Len(out) :
            {out[k][i] : i \in 1 .. Len(out[k])} =
                ReachablePatterns(board, op.dir, k - 1, <<BoardAt(board, op.pos)>>)

\* C10: every returned pattern is maximal: the cell before its first tile and
\* the cell after its last tile are each off the board or without a tile.
C10_Maximal ==
    (Returned("make_patterns") /\ NoNoneEntries(board)) =>
        \A k \in 1 .. Len(out) : \A i \in 1 .. Len(out[k]) :
            LET p == out[k][i]
                before == Step(p[1].pos, opposite(op.dir))
                after == Step(p[Len(p)].pos, op.dir)
            IN /\ ~Contains(before) \/ ~Occupied(board, before)
               /\ ~Contains(after) \/ ~Occupied(board, after)

\* The number of occupied on-board cells in a row from pos (excluded) along d.
RunLength(b, pos, d) ==
    CHOOSE n \in 0 .. W + H + 1 :
        /\ \A j \in 1 .. n :
              LET q == <<pos[1] + j * d[1], pos[2] + j * d[2]>> IN
              Contains(q) /\ Occupied(b, q)
        /\ LET q == <<pos[1] + (n + 1) * d[1], pos[2] + (n + 1) * d[2]>> IN
           ~(Contains(q) /\ Occupied(b, q))

\* The cross word through tile along d: the maximal run of occupied cells
\* through the tile's cell in increasing coordinate order, the tile's own
\* letter at its cell.
CrossWord(b, tile, d) ==
    LET lo == RunLength(b, tile.pos, opposite(d))
        hi == RunLength(b, tile.pos, d)
    IN [i \in 1 .. lo + hi + 1 |->
          IF i = lo + 1 THEN tile.letter
          ELSE b[<<tile.pos[1] + (i - lo - 1) * d[1], tile.pos[2] + (i - lo - 1) * d[2]>>]]

RECURSIVE CrossWords(_, _, _)
CrossWords(b, word, i) ==
    IF i > Len(word) THEN <<>>
    ELSE LET d == orthogonal(WordDirection(word))
             cw == CrossWord(b, word[i], d)
         IN (IF Len(cw) > 1 THEN <<cw>> ELSE <<>>) \o CrossWords(b, word, i + 1)

WordOnBoard(word) == \A i \in 1 .. Len(word) : Contains(word[i].pos)

\* C4: for a candidate word on the board, get_intersecting_words returns, in
\* tile order, the cross word of each tile that has an occupied neighbour
\* along the orthogonal axis, and nothing for the other tiles.
C4_CrossWords ==
    (op.name = "get_intersecting_words" /\ WordOnBoard(op.word)) =>
        /\ op.status = "ok"
        /\ out = CrossWords(board, op.word, 1)

\* C5: get_best_words, called with a rack that is not empty, searches, for
\* both axes, every on-board cell that holds a tile.
C5_EveryTileSearched ==
    (Returned("get_best_words") /\ op.n >= 1 /\ NoNoneEntries(board)) =>
        \A p \in OnBoard : Occupied(board, p) =>
            \A d \in directions : \E i \in 1 .. Len(out) : out[i] = <<p, d>>

\* C6: get_tile leaves the grid as it was: a cell it reported empty is
\* still without a key.
C6_GetTilePure ==
    (op.name = "get_tile" /\ Contains(op.pos) /\ out = <<NoneEntry>>) => ~InBoard(board, op.pos)

\* The tiles of word whose cell holds another letter in b.
Conflicts(b, word) ==
    {i \in 1 .. Len(word) : Occupied(b, word[i].pos) /\ b[word[i].pos] # word[i].letter}

Min(S) == CHOOSE x \in S : \A y \in S : x <= y

\* C7: put_word of a word on the board never changes an occupied cell; with
\* no conflicting letter it succeeds and the grid then holds the word (and
\* is unchanged when it held the word already); with a conflicting letter it
\* fails with the letter mismatch, the tiles before the first conflict are
\* written, and the conflicting cell and the cells after it are as before.
C7_PutWord ==
    [][(op'.name = "put_word" /\ WordOnBoard(op'.word)) =>
          LET word == op'.word
              cs == Conflicts(board, word)
          IN /\ \A p \in Cells : Occupied(board, p) => board'[p] = board[p]
             /\ cs = {} =>
                   /\ op'.status = "ok"
                   /\ \A i \in 1 .. Len(word) : board'[word[i].pos] = word[i].letter
                   /\ \A p \in Cells :
                         (\A i \in 1 .. Len(word) : word[i].pos # p) => board'[p] = board[p]
             /\ cs # {} =>
                   /\ op'.status = "ValueError: tile letter does not match board letter"
                   /\ \A i \in 1 .. Len(word) :
                         IF i < Min(cs)
                         THEN board'[word[i].pos] = word[i].letter
                         ELSE board'[word[i].pos] = board[word[i].pos]
    ]_vars

\* C8 as stated: manually_delete_tile on a cell without a tile ends without
\* an error and leaves the grid unchanged; on an occupied cell it removes
\* that tile and no other.
C8_AbsentTolerant ==
    [][op'.name = "manually_delete_tile" =>
          /\ op'.status = "ok"
          /\ ~InBoard(board', op'.pos)
          /\ \A p \in Cells : p # op'.pos => board'[p] = board[p]
    ]_vars

\* C8 as amended: manually_delete_tile on a position that is no key of the
\* grid raises KeyError and leaves the grid unchanged; on a key it removes
\* that entry and no other.
C8_KeyErrorOnAbsent ==
    [][op'.name = "manually_delete_tile" =>
          /\ ~InBoard(board, op'.pos) => (op'.status = "KeyError" /\ board' = board)
          /\ InBoard(board, op'.pos) => op'.status = "ok"
          /\ ~InBoard(board', op'.pos)
          /\ \A p \in Cells : p # op'.pos => board'[p] = board[p]
    ]_vars

\* The removal of a missing key was refused while other tiles lie on the grid.
C8_Witness ==
    /\ op.name = "manually_delete_tile"
    /\ op.status = "KeyError"
    /\ \E p \in OnBoard : Occupied(board, p)

====
